---- MODULE Spec2Model ----
(***************************************************************************)
(* Model of renewable_excel_autofill.py: the text normaliser, the tag      *)
(* extractor, the schema mapper (build_row), the workbook sink and the     *)
(* driver loop of main.                                                    *)
(*                                                                         *)
(* Text is a sequence of one-character strings.  Extracted values, tag     *)
(* names and canonical column keys are strings, built from characters by   *)
(* Str.                                                                    *)
(***************************************************************************)
EXTENDS Naturals, Sequences, FiniteSets, TLC

VARIABLES
    \* normalize_space applied once and twice
    ns, n1, n2, npc,
    \* one call of extract_tags
    etext, erules, eres, epc,
    \* one call of build_row
    columns, tag_values, row, rpc,
    \* one run of main
    folder, template, outFile, outFile0, files, fi, rows_to_write, sinkLog,
    appended, pc

normVars == <<ns, n1, n2, npc>>
extractVars == <<etext, erules, eres, epc>>
rowVars == <<columns, tag_values, row, rpc>>
mainVars == <<folder, template, outFile, outFile0, files, fi, rows_to_write,
              sinkLog, appended, pc>>
vars == <<normVars, extractVars, rowVars, mainVars>>

----------------------------------------------------------------------------
(* Characters *)

CR == "\r"
LF == "\n"
TAB == "\t"
SP == " "
\* U+00A0, the non-breaking space
NBSP == "NBSP"

\* the characters the regular expression of normalize_space collapses
BlankChars == {NBSP, TAB, SP}

\* the characters str.strip() removes at the edges
StripChars == {SP, TAB, LF, CR, NBSP}

RECURSIVE Str(_)
Str(s) == IF s = <<>> THEN "" ELSE Head(s) \o Str(Tail(s))

----------------------------------------------------------------------------
(* normalize_space *)

\* s.replace("\r", "\n")
ReplaceCR(s) == [i \in 1..Len(s) |-> IF s[i] = CR THEN LF ELSE s[i]]

\* re.sub(r"[cls]+", " ", s): every maximal run of cls becomes one space
RECURSIVE CollapseRuns(_, _)
CollapseRuns(s, cls) ==
    IF s = <<>> THEN <<>>
    ELSE IF Head(s) \in cls
         THEN IF Len(s) > 1 /\ s[2] \in cls
              THEN CollapseRuns(Tail(s), cls)
              ELSE <<SP>> \o CollapseRuns(Tail(s), cls)
         ELSE <<Head(s)>> \o CollapseRuns(Tail(s), cls)

\* str.strip()
RECURSIVE LStrip(_)
LStrip(s) ==
    IF s # <<>> /\ Head(s) \in StripChars THEN LStrip(Tail(s)) ELSE s

RECURSIVE RStrip(_)
RStrip(s) ==
    IF s # <<>> /\ s[Len(s)] \in StripChars
    THEN RStrip(SubSeq(s, 1, Len(s) - 1))
    ELSE s

Strip(s) == RStrip(LStrip(s))

\* s.replace("\t", " ")
ReplaceTab(s) == [i \in 1..Len(s) |-> IF s[i] = TAB THEN SP ELSE s[i]]

\* a variant whose character class lacks the tab and which turns tabs into
\* spaces only after the runs were collapsed
normalize_space_tab_late(s) ==
    Strip(ReplaceTab(CollapseRuns(ReplaceCR(s), {NBSP, SP})))

normalize_space(s) == Strip(CollapseRuns(ReplaceCR(s), BlankChars))

----------------------------------------------------------------------------
(* Specification of normalize_space: the input is any string of at most   *)
(* MaxLen characters; the function is applied, then applied to its result. *)

MaxLen == 4

NormAlphabet == {CR, LF, TAB, SP, NBSP, "a"}

RECURSIVE SeqsUpTo(_, _)
SeqsUpTo(S, n) ==
    IF n = 0 THEN {<<>>}
    ELSE LET shorter == SeqsUpTo(S, n - 1)
         IN  shorter \cup {Append(s, c) : s \in {t \in shorter : Len(t) = n - 1}, c \in S}

NormIdle == ns = <<>> /\ n1 = <<>> /\ n2 = <<>> /\ npc = "idle"

NormalizeOnce ==
    /\ npc = "start"
    /\ n1' = normalize_space(ns)
    /\ npc' = "once"
    /\ UNCHANGED <<ns, n2>>

NormalizeTwice ==
    /\ npc = "once"
    /\ n2' = normalize_space(n1)
    /\ npc' = "twice"
    /\ UNCHANGED <<ns, n1>>

----------------------------------------------------------------------------
(* Regular expressions.  A pattern is malformed (re.search raises          *)
(* re.error) or one of three shapes over a literal key:                    *)
(*   grp = "none"   key                                                    *)
(*   grp = "req"    key(?P<value>.+)                                       *)
(*   grp = "opt"    key(?P<value>.+)?                                      *)
(* searched with re.IGNORECASE | re.MULTILINE: the leftmost match wins,    *)
(* the group is greedy and "." does not match a newline.                   *)

UpperChars == <<"A","B","C","D","E","F","G","H","I","J","K","L","M",
                "N","O","P","Q","R","S","T","U","V","W","X","Y","Z">>
LowerChars == <<"a","b","c","d","e","f","g","h","i","j","k","l","m",
                "n","o","p","q","r","s","t","u","v","w","x","y","z">>
Digits == {"0","1","2","3","4","5","6","7","8","9"}

\* str.lower() on one character
lower(c) ==
    IF \E i \in 1..26 : UpperChars[i] = c
    THEN LowerChars[CHOOSE i \in 1..26 : UpperChars[i] = c]
    ELSE c

BadPattern == [kind |-> "bad", key |-> <<>>, grp |-> "none"]
Pattern(key, grp) == [kind |-> "re", key |-> key, grp |-> grp]

\* the key stands at position p of text, letters compared without case
KeyAt(key, text, p) ==
    /\ p + Len(key) - 1 <= Len(text)
    /\ \A j \in 1..Len(key) : lower(text[p + j - 1]) = lower(key[j])

\* the longest run of characters other than newline that starts at q
RECURSIVE DotRun(_, _)
DotRun(text, q) ==
    IF q > Len(text) \/ text[q] = LF THEN <<>>
    ELSE <<text[q]>> \o DotRun(text, q + 1)

MatchAt(pat, text, p) ==
    /\ KeyAt(pat.key, text, p)
    /\ pat.grp = "req" => DotRun(text, p + Len(pat.key)) # <<>>

MatchPositions(pat, text) == {p \in 1..Len(text) : MatchAt(pat, text, p)}

Min(S) == CHOOSE x \in S : \A y \in S : x <= y

\* re.search(pat, text, flags=re.IGNORECASE|re.MULTILINE):
\*   kind "error"    re.error was raised
\*   kind "nomatch"  None was returned
\*   kind "match"    a match object: group0 is m.group(0); named tells
\*                   whether "value" is a key of m.groupdict(), isNone
\*                   whether its entry is None, value its text otherwise
re_search(pat, text) ==
    IF pat.kind = "bad"
    THEN [kind |-> "error", group0 |-> <<>>, named |-> FALSE,
          isNone |-> FALSE, value |-> <<>>]
    ELSE IF MatchPositions(pat, text) = {}
    THEN [kind |-> "nomatch", group0 |-> <<>>, named |-> FALSE,
          isNone |-> FALSE, value |-> <<>>]
    ELSE LET p == Min(MatchPositions(pat, text))
             k == SubSeq(text, p, p + Len(pat.key) - 1)
             run == DotRun(text, p + Len(pat.key))
         IN  IF pat.grp = "none"
             THEN [kind |-> "match", group0 |-> k, named |-> FALSE,
                   isNone |-> FALSE, value |-> <<>>]
             ELSE [kind |-> "match", group0 |-> k \o run, named |-> TRUE,
                   isNone |-> run = <<>>, value |-> run]

\* m.groupdict().get("value", m.group(0)): the default is used only when
\* the pattern has no group named value; a group that did not take part
\* in the match gives None
groupdict_get(m) ==
    IF m.named
    THEN [isNone |-> m.isNone, s |-> m.value]
    ELSE [isNone |-> FALSE, s |-> m.group0]

----------------------------------------------------------------------------
(* extract_tags *)

EmptyMap == [k \in {} |-> ""]

\* out[tag] = v
SetItem(out, tag, v) == [k \in DOMAIN out \cup {tag} |-> IF k = tag THEN v ELSE out[k]]

\* a variant of the loop over one tag's patterns that has no break: every
\* pattern is tried and the last match is the one stored
RECURSIVE PatternLoopNoBreak(_, _, _, _)
PatternLoopNoBreak(text, pats, i, found) ==
    IF i > Len(pats) THEN [found EXCEPT !.tried = Len(pats)]
    ELSE LET m == re_search(pats[i], text)
         IN  IF m.kind # "match"
             THEN PatternLoopNoBreak(text, pats, i + 1, found)
             ELSE IF groupdict_get(m).isNone
                  THEN [kind |-> "raise", val |-> "", tried |-> i]
                  ELSE PatternLoopNoBreak(text, pats, i + 1,
                         [kind |-> "value",
                          val |-> Str(normalize_space(groupdict_get(m).s)),
                          tried |-> i])

\* the loop "for pat in patterns" from pattern i on, for one tag:
\*   kind "absent"  no pattern matched, nothing is stored
\*   kind "value"   val is stored under the tag, then break
\*   kind "raise"   normalize_space(None) raised AttributeError
\* tried is the index of the last pattern handed to re.search.  found is
\* what the loop has stored so far.
RECURSIVE PatternLoop(_, _, _, _)
PatternLoop(text, pats, i, found) ==
    IF i > Len(pats) THEN [found EXCEPT !.tried = Len(pats)]
    ELSE LET m == re_search(pats[i], text)
         IN  IF m.kind = "error"
             THEN PatternLoop(text, pats, i + 1, found)
             ELSE IF m.kind = "nomatch"
             THEN PatternLoop(text, pats, i + 1, found)
             ELSE IF groupdict_get(m).isNone
                  THEN [kind |-> "raise", val |-> "", tried |-> i]
                  ELSE [kind |-> "value",
                        val |-> Str(normalize_space(groupdict_get(m).s)),
                        tried |-> i]

NothingFound == [kind |-> "absent", val |-> "", tried |-> 0]

\* the loop "for tag, patterns in tag_rules.items()" from entry t on;
\* tag_rules is the sequence of the dictionary's entries in its order
RECURSIVE TagLoop(_, _, _, _, _)
TagLoop(text, tag_rules, t, out, tried) ==
    IF t > Len(tag_rules)
    THEN [raised |-> FALSE, at |-> 0, out |-> out, tried |-> tried]
    ELSE LET r == PatternLoop(text, tag_rules[t].pats, 1, NothingFound)
             seen == tried \cup {<<t, j>> : j \in 1..r.tried}
         IN  IF r.kind = "raise"
             THEN [raised |-> TRUE, at |-> t, out |-> out, tried |-> seen]
             ELSE TagLoop(text, tag_rules, t + 1,
                          IF r.kind = "value"
                          THEN SetItem(out, tag_rules[t].tag, r.val)
                          ELSE out,
                          seen)

\* extract_tags(text, tag_rules): raised tells whether the call raised
\* (at: the entry it raised in), out is the dictionary built so far
extract_tags(text, tag_rules) ==
    TagLoop(normalize_space(text), tag_rules, 1, EmptyMap, {})

----------------------------------------------------------------------------
(* Specification of extract_tags: one call on a text and a rule set of two *)
(* tags, each with at most MaxPats patterns.                               *)

MaxPats == 2

\* "EMD:<tab> 50 <cr>w": the amount is followed by a blank and a line end,
\* and the text ends in the key of OptW
TextEmd == <<"E","M","D",":",TAB,SP,"5","0",SP,CR,"w">>
\* "w 7"
TextW == <<"w",SP,"7">>
\* "emd"
TextBare == <<"e","m","d">>
\* only white space
TextBlank == <<SP,NBSP,LF>>

ExtractTexts == {TextEmd, TextW, TextBare, TextBlank}

\* emd:(?P<value>.+)
ReqEmd == Pattern(<<"e","m","d",":">>, "req")
\* emd
LitEmd == Pattern(<<"e","m","d">>, "none")
\* w(?P<value>.+)?
OptW == Pattern(<<"w">>, "opt")
\* x(?P<value>.+)
ReqX == Pattern(<<"x">>, "req")

ExtractPatterns == {BadPattern, ReqEmd, LitEmd, OptW, ReqX}

\* the patterns of the second tag
SecondPatterns == {LitEmd, OptW}

RuleSets ==
    {<<[tag |-> "emd_amount_rs", pats |-> p1], [tag |-> "project_name", pats |-> p2]>> :
        p1 \in SeqsUpTo(ExtractPatterns, MaxPats),
        p2 \in SeqsUpTo(SecondPatterns, MaxPats)}

NoResult == [raised |-> FALSE, at |-> 0, out |-> EmptyMap, tried |-> {}]

ExtractIdle ==
    etext = <<>> /\ erules = <<>> /\ eres = NoResult /\ epc = "idle"

\* the call returns its dictionary
ExtractReturns ==
    /\ epc = "start"
    /\ ~extract_tags(etext, erules).raised
    /\ eres' = extract_tags(etext, erules)
    /\ epc' = "returned"
    /\ UNCHANGED <<etext, erules>>

\* the call ends in an exception
ExtractRaises ==
    /\ epc = "start"
    /\ extract_tags(etext, erules).raised
    /\ eres' = extract_tags(etext, erules)
    /\ epc' = "raised"
    /\ UNCHANGED <<etext, erules>>

----------------------------------------------------------------------------
(* build_row *)

IsAlnum(c) ==
    \/ \E i \in 1..26 : UpperChars[i] = c \/ LowerChars[i] = c
    \/ c \in Digits

\* re.sub(r"[^A-Za-z0-9]+", "_", col)
RECURSIVE SubNonAlnum(_)
SubNonAlnum(col) ==
    IF col = <<>> THEN <<>>
    ELSE IF ~IsAlnum(Head(col))
         THEN IF Len(col) > 1 /\ ~IsAlnum(col[2])
              THEN SubNonAlnum(Tail(col))
              ELSE <<"_">> \o SubNonAlnum(Tail(col))
         ELSE <<Head(col)>> \o SubNonAlnum(Tail(col))

\* str.lower()
Lowered(s) == [i \in 1..Len(s) |-> lower(s[i])]

\* str.strip("_")
RECURSIVE StripUnderscores(_)
StripUnderscores(s) ==
    IF s # <<>> /\ Head(s) = "_" THEN StripUnderscores(Tail(s))
    ELSE IF s # <<>> /\ s[Len(s)] = "_"
         THEN StripUnderscores(SubSeq(s, 1, Len(s) - 1))
         ELSE s

\* key = re.sub(r"[^A-Za-z0-9]+", "_", col).lower().strip("_")
CanonicalKey(col) == Str(StripUnderscores(Lowered(SubNonAlnum(col))))

\* the list "aliases" of build_row: (tag, aka) pairs
aliases == <<
    [tag |-> "project_name", aka |-> <<"project", "tender_name", "name_of_work">>],
    [tag |-> "project_capacity_mw", aka |-> <<"capacity_mw", "capacity">>],
    [tag |-> "storage_capacity_mwh", aka |-> <<"bess_mwh", "storage_mwh">>],
    [tag |-> "bid_submission_deadline", aka |-> <<"submission_deadline", "bid_due_date">>],
    [tag |-> "emd_amount_rs", aka |-> <<"emd", "earnest_money">>],
    [tag |-> "pbg_percent_or_amount", aka |-> <<"pbg", "performance_bg">>],
    [tag |-> "completion_time_months", aka |-> <<"completion_time", "time_for_completion">>],
    [tag |-> "price_cap_rs_per_kwh", aka |-> <<"tariff_cap", "ceiling_tariff">>],
    [tag |-> "interconnection_voltage_kv", aka |-> <<"grid_voltage_kv", "voltage_kv">>] >>

Range(f) == {f[i] : i \in DOMAIN f}

\* a variant of the alias loop that reads the table the other way round:
\* the column key is looked up among the tags of the table, and the value
\* of the first of the entry's alternate names found in tag_values is used
RECURSIVE AliasFillReversed(_, _, _)
AliasFillReversed(key, tags, j) ==
    IF j > Len(aliases) THEN ""
    ELSE IF key = aliases[j].tag /\ Range(aliases[j].aka) \cap DOMAIN tags # {}
         THEN tags[aliases[j].aka[Min({n \in DOMAIN aliases[j].aka :
                                          aliases[j].aka[n] \in DOMAIN tags})]]
         ELSE AliasFillReversed(key, tags, j + 1)

\* the loop "for tag, aka in aliases" from entry j on: the value of filled
RECURSIVE AliasFill(_, _, _)
AliasFill(key, tags, j) ==
    IF j > Len(aliases) THEN ""
    ELSE IF key \in Range(aliases[j].aka) /\ aliases[j].tag \in DOMAIN tags
         THEN tags[aliases[j].tag]
         ELSE AliasFill(key, tags, j + 1)

\* a variant of the loop body that tries the alias table first and the
\* exact key only when no alias filled the cell
CellAliasFirst(col, tags) ==
    IF AliasFill(CanonicalKey(col), tags, 1) # ""
    THEN AliasFill(CanonicalKey(col), tags, 1)
    ELSE IF CanonicalKey(col) \in DOMAIN tags
         THEN tags[CanonicalKey(col)]
         ELSE ""

\* the body of "for col in columns": the value appended for one column
Cell(col, tags) ==
    IF CanonicalKey(col) \in DOMAIN tags
    THEN tags[CanonicalKey(col)]
    ELSE AliasFill(CanonicalKey(col), tags, 1)

\* a variant that appends nothing for a column it could not fill
build_row_skip_unfilled(cols, tags) ==
    SelectSeq([i \in 1..Len(cols) |-> Cell(cols[i], tags)], LAMBDA v : v # "")

build_row(cols, tags) == [i \in 1..Len(cols) |-> Cell(cols[i], tags)]

----------------------------------------------------------------------------
(* Specification of build_row: one call on a schema of at most MaxCols    *)
(* columns and a dictionary of tags.                                       *)

MaxCols == 2

ColStorageCapacity == <<"S","t","o","r","a","g","e"," ","C","a","p","a","c","i","t","y"," ","(","M","W","h",")">>
ColBessMwh == <<"B","E","S","S"," ","M","W","h">>
ColCapacityMw == <<"C","a","p","a","c","i","t","y"," ","(","M","W",")">>
ColUnknown == <<"U","n","k","n","o","w","n"," ","C","o","l","u","m","n">>

ColumnNames == {ColStorageCapacity, ColBessMwh, ColCapacityMw, ColUnknown}

TagKeys == {"bess_mwh", "storage_capacity_mwh", "capacity_mw", "project_capacity_mw"}
TagValues == {"50", "100"}

TagMaps == UNION {[K -> TagValues] : K \in SUBSET TagKeys}

RowIdle == columns = <<>> /\ tag_values = EmptyMap /\ row = <<>> /\ rpc = "idle"

BuildRow ==
    /\ rpc = "start"
    /\ row' = build_row(columns, tag_values)
    /\ rpc' = "built"
    /\ UNCHANGED <<columns, tag_values>>

----------------------------------------------------------------------------
(* The readers.  A file of the folder is a record: path is its rank in the *)
(* order of sorted(), isFile tells a file from a directory, suffix is      *)
(* p.suffix, content is the text a reader gets out of it and io tells      *)
(* whether opening or parsing it fails ("fail") or not ("ok").             *)

FileName(p) == "doc" \o ToString(p.path) \o Str(p.suffix)

\* read_pdf_text, read_docx_text, read_xl_text: every exception is caught
\* and "" is returned
read_caught(p) ==
    IF p.io = "ok"
    THEN [raised |-> FALSE, text |-> p.content]
    ELSE [raised |-> FALSE, text |-> <<>>]

\* Path(path).read_text(...) in a try whose handler calls read_text again:
\* a file that cannot be opened fails in the handler too
read_text_twice(p) ==
    IF p.io = "ok"
    THEN [raised |-> FALSE, text |-> p.content]
    ELSE [raised |-> TRUE, text |-> <<>>]

\* read_any_text(path): raised tells whether an exception reached the caller
read_any_text(p) ==
    LET ext == Str(Lowered(p.suffix))
    IN  IF ext = ".pdf" THEN read_caught(p)
        ELSE IF ext \in {".docx"} THEN read_caught(p)
        ELSE IF ext \in {".xlsx", ".xls"} THEN read_caught(p)
        ELSE IF ext \in {".txt", ".csv"} THEN read_text_twice(p)
        ELSE read_caught(p)

----------------------------------------------------------------------------
(* The workbook.  A file on disk is [exists, wb]; wb maps each sheet name  *)
(* to the sequence of its rows.                                            *)

NoFile == [exists |-> FALSE, wb |-> EmptyMap]
OnDisk(wb) == [exists |-> TRUE, wb |-> wb]

\* ws.max_row: 1 for a sheet without cells
max_row(ws) == IF Len(ws) = 0 THEN 1 ELSE Len(ws)

\* the row ws.append(columns) writes: the column names
HeaderRow(cols) == [i \in 1..Len(cols) |-> Str(cols[i])]

\* ensure_workbook(out_path, template, master_sheet, columns): the workbook
\* saved at out_path.  out is the file at out_path before the call.
ensure_workbook(out, tmpl, master_sheet, cols) ==
    IF tmpl.given /\ tmpl.exists
    THEN IF master_sheet \notin DOMAIN tmpl.wb
         THEN SetItem(tmpl.wb, master_sheet, <<HeaderRow(cols)>>)
         ELSE IF max_row(tmpl.wb[master_sheet]) < 1
              THEN SetItem(tmpl.wb, master_sheet,
                           Append(tmpl.wb[master_sheet], HeaderRow(cols)))
              ELSE tmpl.wb
    ELSE SetItem(EmptyMap, master_sheet, <<HeaderRow(cols)>>)

\* append_rows(out_path, master_sheet, rows): the workbook saved
append_rows(wb, master_sheet, rows) ==
    SetItem(wb, master_sheet, wb[master_sheet] \o rows)

----------------------------------------------------------------------------
(* main *)

MaxFiles == 2

\* load_columns and load_tags: the configuration of the run
master_sheet == "Master"
supported == {".pdf", ".docx", ".txt", ".csv", ".xlsx", ".xls"}

ColSourceFile == <<"S","o","u","r","c","e"," ","F","i","l","e">>
ColEmd == <<"E","M","D">>
ColProject == <<"P","r","o","j","e","c","t">>
MainColumns == <<ColSourceFile, ColEmd, ColProject>>

MainRules == <<[tag |-> "emd_amount_rs", pats |-> <<BadPattern, ReqEmd>>],
               [tag |-> "project_name", pats |-> <<OptW>>]>>

\* datetime.now().isoformat(timespec="seconds")
Timestamps == {"2026-01-01T00:00:00"}

\* "EMD: 50"
DocGood == <<"E","M","D",":",SP,"5","0">>
\* "z": text in which no pattern matches
DocNoTag == <<"z">>

Suffixes == {<<".","p","d","f">>, <<".","d","o","c","x">>, <<".","T","X","T">>,
             <<".","c","s","v">>, <<".","x","l","s","x">>, <<".","x","l","s">>}
SuffixMd == <<".","m","d">>

\* what may lie at one path of the folder: a file of each supported type
\* that cannot be read, readable files with text, files without text, a
\* file whose text makes extract_tags raise, a file of another type and a
\* directory
FileKinds ==
    {[isFile |-> TRUE, suffix |-> x, content |-> DocGood, io |-> "fail"] : x \in Suffixes}
    \cup {[isFile |-> TRUE, suffix |-> <<".","T","X","T">>, content |-> c, io |-> "ok"] :
        c \in {DocGood, TextBlank, DocNoTag, TextEmd}}
    \cup {[isFile |-> TRUE, suffix |-> <<".","p","d","f">>, content |-> c, io |-> "ok"] :
        c \in {DocGood, <<>>}}
    \cup {[isFile |-> TRUE, suffix |-> SuffixMd, content |-> DocGood, io |-> "ok"],
          [isFile |-> FALSE, suffix |-> <<>>, content |-> <<>>, io |-> "ok"]}

Folders ==
    UNION {{ {[path |-> k, isFile |-> f[k].isFile, suffix |-> f[k].suffix,
               content |-> f[k].content, io |-> f[k].io] : k \in K} :
               f \in [K -> FileKinds]} : K \in SUBSET (1..MaxFiles)}

\* sorted(docs_dir.glob("**/*"))
RECURSIVE sorted(_)
sorted(S) ==
    IF S = {} THEN <<>>
    ELSE LET first == CHOOSE p \in S : \A q \in S : p.path <= q.path
         IN  <<first>> \o sorted(S \ {first})

PriorRow == <<"old.pdf", "1", "P">>

Templates ==
    {[given |-> FALSE, exists |-> FALSE, wb |-> EmptyMap],
     [given |-> TRUE, exists |-> FALSE, wb |-> EmptyMap],
     [given |-> TRUE, exists |-> TRUE, wb |-> SetItem(EmptyMap, "Notes", <<<<"n">>>>)],
     [given |-> TRUE, exists |-> TRUE, wb |-> SetItem(EmptyMap, master_sheet, <<>>)],
     [given |-> TRUE, exists |-> TRUE,
      wb |-> SetItem(EmptyMap, master_sheet, <<HeaderRow(MainColumns), <<"tmpl.pdf", "2", "T">>>>)]}

OutFiles ==
    {NoFile,
     OnDisk(SetItem(EmptyMap, master_sheet, <<HeaderRow(MainColumns), PriorRow>>))}

MainIdle ==
    /\ folder = {} /\ template = [given |-> FALSE, exists |-> FALSE, wb |-> EmptyMap]
    /\ outFile = NoFile /\ outFile0 = NoFile /\ files = <<>> /\ fi = 0
    /\ rows_to_write = <<>> /\ sinkLog = <<>> /\ appended = <<>> /\ pc = "idle"

\* tags.setdefault(key, v)
setdefault(tags, key, v) == IF key \in DOMAIN tags THEN tags ELSE SetItem(tags, key, v)

\* lines 232-236 and the evaluation of sorted(...) at line 240
EnsureWorkbook ==
    /\ pc = "start"
    /\ outFile' = OnDisk(ensure_workbook(outFile, template, master_sheet, MainColumns))
    /\ sinkLog' = Append(sinkLog, "ensure")
    /\ files' = sorted(folder)
    /\ fi' = 1
    /\ pc' = "loop"
    /\ UNCHANGED <<folder, template, outFile0, rows_to_write, appended>>

InLoop == pc = "loop" /\ fi <= Len(files)

IsCandidate(p) == p.isFile /\ Str(Lowered(p.suffix)) \in supported

\* lines 241-244: not a file, or not a supported suffix
SkipEntry ==
    /\ InLoop
    /\ ~IsCandidate(files[fi])
    /\ fi' = fi + 1
    /\ UNCHANGED <<folder, template, outFile, outFile0, files, rows_to_write,
                   sinkLog, appended, pc>>

\* line 246 raises: the exception leaves the loop and main
ReadRaises ==
    /\ InLoop
    /\ IsCandidate(files[fi])
    /\ read_any_text(files[fi]).raised
    /\ pc' = "read_raised"
    /\ UNCHANGED <<folder, template, outFile, outFile0, files, fi, rows_to_write,
                   sinkLog, appended>>

\* lines 247-249: if not text.strip(): continue
SkipBlank ==
    /\ InLoop
    /\ IsCandidate(files[fi])
    /\ ~read_any_text(files[fi]).raised
    /\ Strip(read_any_text(files[fi]).text) = <<>>
    /\ fi' = fi + 1
    /\ UNCHANGED <<folder, template, outFile, outFile0, files, rows_to_write,
                   sinkLog, appended, pc>>

\* line 250 raises: the exception leaves the loop and main
ExtractFails ==
    /\ InLoop
    /\ IsCandidate(files[fi])
    /\ ~read_any_text(files[fi]).raised
    /\ Strip(read_any_text(files[fi]).text) # <<>>
    /\ extract_tags(read_any_text(files[fi]).text, MainRules).raised
    /\ pc' = "extract_raised"
    /\ UNCHANGED <<folder, template, outFile, outFile0, files, fi, rows_to_write,
                   sinkLog, appended>>

\* the row of lines 250-254 for file p processed at time now
RowOf(p, now) ==
    build_row(MainColumns,
              setdefault(setdefault(extract_tags(read_any_text(p).text, MainRules).out,
                                    "source_file", FileName(p)),
                         "ingested_at", now))

\* a variant of the loop body that writes each row to the sink at once
CollectRowAndAppend ==
    /\ InLoop
    /\ IsCandidate(files[fi])
    /\ ~read_any_text(files[fi]).raised
    /\ Strip(read_any_text(files[fi]).text) # <<>>
    /\ ~extract_tags(read_any_text(files[fi]).text, MainRules).raised
    /\ \E now \in Timestamps :
          /\ rows_to_write' = Append(rows_to_write, RowOf(files[fi], now))
          /\ outFile' = OnDisk(append_rows(outFile.wb, master_sheet,
                                           <<RowOf(files[fi], now)>>))
          /\ appended' = <<RowOf(files[fi], now)>>
    /\ sinkLog' = Append(sinkLog, "append")
    /\ fi' = fi + 1
    /\ UNCHANGED <<folder, template, outFile0, files, pc>>

\* lines 250-255: the row is built and collected
CollectRow ==
    /\ InLoop
    /\ IsCandidate(files[fi])
    /\ ~read_any_text(files[fi]).raised
    /\ Strip(read_any_text(files[fi]).text) # <<>>
    /\ ~extract_tags(read_any_text(files[fi]).text, MainRules).raised
    /\ \E now \in Timestamps :
          rows_to_write' = Append(rows_to_write, RowOf(files[fi], now))
    /\ fi' = fi + 1
    /\ UNCHANGED <<folder, template, outFile, outFile0, files, sinkLog, appended, pc>>

\* lines 257-259
AppendRows ==
    /\ pc = "loop"
    /\ fi > Len(files)
    /\ rows_to_write # <<>>
    /\ outFile' = OnDisk(append_rows(outFile.wb, master_sheet, rows_to_write))
    /\ sinkLog' = Append(sinkLog, "append")
    /\ appended' = rows_to_write
    /\ pc' = "done"
    /\ UNCHANGED <<folder, template, outFile0, files, fi, rows_to_write>>

\* lines 260-261
NothingToWrite ==
    /\ pc = "loop"
    /\ fi > Len(files)
    /\ rows_to_write = <<>>
    /\ pc' = "done"
    /\ UNCHANGED <<folder, template, outFile, outFile0, files, fi, rows_to_write,
                   sinkLog, appended>>

----------------------------------------------------------------------------
(* Specifications *)

\* normalize_space on every string of at most MaxLen characters
InitNorm ==
    /\ ns \in SeqsUpTo(NormAlphabet, MaxLen)
    /\ n1 = <<>> /\ n2 = <<>> /\ npc = "start"
    /\ ExtractIdle /\ RowIdle /\ MainIdle

NextNorm ==
    \/ NormalizeOnce /\ UNCHANGED <<extractVars, rowVars, mainVars>>
    \/ NormalizeTwice /\ UNCHANGED <<extractVars, rowVars, mainVars>>

SpecNorm == InitNorm /\ [][NextNorm]_vars

\* extract_tags on every text of ExtractTexts and rule set of RuleSets
InitExtract ==
    /\ etext \in ExtractTexts
    /\ erules \in RuleSets
    /\ eres = NoResult /\ epc = "start"
    /\ NormIdle /\ RowIdle /\ MainIdle

NextExtract ==
    \/ ExtractReturns /\ UNCHANGED <<normVars, rowVars, mainVars>>
    \/ ExtractRaises /\ UNCHANGED <<normVars, rowVars, mainVars>>

SpecExtract == InitExtract /\ [][NextExtract]_vars

\* build_row on every schema over ColumnNames and dictionary of TagMaps
InitRow ==
    /\ columns \in SeqsUpTo(ColumnNames, MaxCols)
    /\ tag_values \in TagMaps
    /\ row = <<>> /\ rpc = "start"
    /\ NormIdle /\ ExtractIdle /\ MainIdle

NextRow == BuildRow /\ UNCHANGED <<normVars, extractVars, mainVars>>

SpecRow == InitRow /\ [][NextRow]_vars

\* one run of main on every folder, template and output file
Init ==
    /\ folder \in Folders
    /\ template \in Templates
    /\ outFile0 \in OutFiles
    /\ outFile = outFile0
    /\ files = <<>> /\ fi = 0 /\ rows_to_write = <<>> /\ sinkLog = <<>>
    /\ appended = <<>> /\ pc = "start"
    /\ NormIdle /\ ExtractIdle /\ RowIdle

Next ==
    \/ EnsureWorkbook /\ UNCHANGED <<normVars, extractVars, rowVars>>
    \/ SkipEntry /\ UNCHANGED <<normVars, extractVars, rowVars>>
    \/ ReadRaises /\ UNCHANGED <<normVars, extractVars, rowVars>>
    \/ SkipBlank /\ UNCHANGED <<normVars, extractVars, rowVars>>
    \/ ExtractFails /\ UNCHANGED <<normVars, extractVars, rowVars>>
    \/ CollectRow /\ UNCHANGED <<normVars, extractVars, rowVars>>
    \/ AppendRows /\ UNCHANGED <<normVars, extractVars, rowVars>>
    \/ NothingToWrite /\ UNCHANGED <<normVars, extractVars, rowVars>>

Spec == Init /\ [][Next]_vars

----------------------------------------------------------------------------
(* Properties of normalize_space (SpecNorm) *)

\* C9: normalize_space is idempotent: applied to its own result it returns
\* that result unchanged, and it returns the empty string for the empty
\* string.
C9_NormalizeIdempotent ==
    /\ npc = "twice" => n2 = n1
    /\ (npc \in {"once", "twice"} /\ ns = <<>>) => n1 = <<>>

\* a string with a run of tab and non-breaking space has been normalised
\* twice
C9_Witness ==
    /\ npc = "twice"
    /\ ns = <<"a", TAB, NBSP, "a">>
    /\ n1 = <<"a", SP, "a">>
    /\ n2 = <<"a", SP, "a">>

----------------------------------------------------------------------------
(* Properties of extract_tags (SpecExtract) *)

\* the patterns of pats that are well formed and match text
Matching(pats, text) ==
    {i \in 1..Len(pats) : re_search(pats[i], text).kind = "match"}

\* the value pattern pat produces on text: the value group's text if the
\* pattern has one, the whole match otherwise, normalised
ValueOf(pat, text) == Str(normalize_space(groupdict_get(re_search(pat, text)).s))

\* the loop over the patterns of entry t has ended without an exception
Completed(t) == epc = "returned" \/ (epc = "raised" /\ t < eres.at)

\* C4: extract_tags never raises, whatever the patterns: every call ends
\* by returning its dictionary.
C4_NeverRaises == epc # "raised"

\* C5: first match wins: for every tag whose patterns have been gone
\* through, the dictionary holds the value of the earliest well-formed
\* matching pattern, no later pattern of the tag was tried, every earlier
\* one was (a malformed one does not stop the search), and a tag without a
\* matching pattern is absent and had all its patterns tried.
C5_FirstMatchWins ==
    \A t \in 1..Len(erules) :
        Completed(t) =>
            LET pats == erules[t].pats
                tag == erules[t].tag
                text == normalize_space(etext)
                M == Matching(pats, text)
            IN  IF M = {}
                THEN /\ tag \notin DOMAIN eres.out
                     /\ \A j \in 1..Len(pats) : <<t, j>> \in eres.tried
                ELSE /\ tag \in DOMAIN eres.out
                     /\ eres.out[tag] = ValueOf(pats[Min(M)], text)
                     /\ \A j \in 1..Len(pats) : <<t, j>> \in eres.tried <=> j <= Min(M)

\* a call has returned in which a tag has two matching patterns that
\* produce different values, and a tag has a malformed pattern before a
\* matching one
C5_Witness ==
    /\ epc = "returned"
    /\ \E t \in 1..Len(erules) :
          LET pats == erules[t].pats
              text == normalize_space(etext)
          IN  /\ Cardinality(Matching(pats, text)) >= 2
              /\ \E i, j \in Matching(pats, text) :
                    ValueOf(pats[i], text) # ValueOf(pats[j], text)
              /\ erules[t].tag \in DOMAIN eres.out

\* a call has returned a value found by the pattern after a malformed one
C5_MalformedFirst ==
    /\ epc = "returned"
    /\ erules[1].pats = <<BadPattern, ReqEmd>>
    /\ etext = TextEmd
    /\ erules[1].tag \in DOMAIN eres.out

----------------------------------------------------------------------------
(* Properties of build_row (SpecRow) *)

\* the alias entries through which build_row can fill key from tags
FillingEntries(key, tags) ==
    {j \in 1..Len(aliases) :
        key \in Range(aliases[j].aka) /\ aliases[j].tag \in DOMAIN tags}

\* C1 as stated: a column whose key is no tag but is the first member
\* (the canonical key) of an alias entry holds the value of one of the
\* entry's alternate names found among the tags; schema
\* ["Storage Capacity (MWh)"] with tags {"bess_mwh": "50"} yields ["50"].
C1_AliasByCanonicalKey ==
    rpc = "built" =>
        \A i \in 1..Len(columns) :
            LET key == CanonicalKey(columns[i])
            IN  key \notin DOMAIN tag_values =>
                    \A j \in 1..Len(aliases) :
                        (key = aliases[j].tag
                           /\ Range(aliases[j].aka) \cap DOMAIN tag_values # {})
                        => row[i] \in {tag_values[a] :
                                         a \in Range(aliases[j].aka) \cap DOMAIN tag_values}

\* C1 amended: a column whose key is no tag but is one of the alternate
\* names of an alias entry whose tag is among the tags holds the value of
\* the first such entry's tag; schema ["BESS MWh"] with tags
\* {"storage_capacity_mwh": "50"} yields ["50"].
C1_AliasByAlternateName ==
    rpc = "built" =>
        /\ Len(row) = Len(columns)
        /\ \A i \in 1..Len(columns) :
              LET key == CanonicalKey(columns[i])
              IN  (key \notin DOMAIN tag_values /\ FillingEntries(key, tag_values) # {})
                  => row[i] = tag_values[aliases[Min(FillingEntries(key, tag_values))].tag]

\* the row of schema ["BESS MWh"] and tags {"storage_capacity_mwh": "50"}
C1_Witness ==
    /\ rpc = "built"
    /\ columns = <<ColBessMwh>>
    /\ DOMAIN tag_values = {"storage_capacity_mwh"}
    /\ tag_values["storage_capacity_mwh"] = "50"
    /\ row = <<"50">>

\* C6: a column whose key is a tag holds that tag's value, also when an
\* alias entry would fill it with another tag's value.
C6_DirectKeyFirst ==
    rpc = "built" =>
        \A i \in 1..Len(columns) :
            CanonicalKey(columns[i]) \in DOMAIN tag_values =>
                /\ i \in DOMAIN row
                /\ row[i] = tag_values[CanonicalKey(columns[i])]

\* a row has been built for a column whose key is a tag and which an alias
\* entry would fill with a different value
C6_Witness ==
    /\ rpc = "built"
    /\ \E i \in 1..Len(columns) :
          LET key == CanonicalKey(columns[i])
          IN  /\ key \in DOMAIN tag_values
              /\ FillingEntries(key, tag_values) # {}
              /\ tag_values[aliases[Min(FillingEntries(key, tag_values))].tag]
                    # tag_values[key]
              /\ row[i] = tag_values[key]

\* C7: the row has one value per column of the schema, in schema order,
\* and the empty string wherever the column resolves neither by its key
\* nor through an alias.
C7_RowWidth ==
    rpc = "built" =>
        /\ Len(row) = Len(columns)
        /\ \A i \in 1..Len(columns) :
              (CanonicalKey(columns[i]) \notin DOMAIN tag_values
                 /\ FillingEntries(CanonicalKey(columns[i]), tag_values) = {})
              => row[i] = ""

\* the row of schema ["Unknown Column"] and no tags
C7_Witness ==
    /\ rpc = "built"
    /\ columns = <<ColUnknown>>
    /\ DOMAIN tag_values = {}
    /\ row = <<"">>

----------------------------------------------------------------------------
(* Properties of main (Spec) *)

\* main has ended, by returning or by an exception
Finished == pc \in {"done", "read_raised", "extract_raised"}

\* the reader returns a text with a character that is not white space
HasText(p) ==
    /\ IsCandidate(p)
    /\ ~read_any_text(p).raised
    /\ Strip(read_any_text(p).text) # <<>>

\* the output file had the master sheet before the run
HadMaster == outFile0.exists /\ master_sheet \in DOMAIN outFile0.wb

\* C2: once ensure_workbook has run, the master sheet holds the rows it
\* held before the run, and after the run these rows followed by the rows
\* of the run.
C2_PriorRowsKept ==
    (pc # "start" /\ HadMaster) =>
        /\ master_sheet \in DOMAIN outFile.wb
        /\ outFile.wb[master_sheet] =
              IF pc = "done"
              THEN outFile0.wb[master_sheet] \o rows_to_write
              ELSE outFile0.wb[master_sheet]

\* C3: no exception of a reader reaches the loop of main.
C3_ReaderNeverRaises == pc # "read_raised"

\* C8: when main has ended, the collected rows are one row for each
\* supported file with text, in the sorted order of the files, and none
\* for any other file.
C8_OneRowPerTextFile ==
    Finished =>
        /\ Len(rows_to_write) = Len(SelectSeq(sorted(folder), HasText))
        /\ \A k \in 1..Len(rows_to_write) :
              rows_to_write[k][1] = FileName(SelectSeq(sorted(folder), HasText)[k])

\* the part of C10 that the code keeps: the sink is written by
\* ensure_workbook first and by append_rows at most once, after the last
\* file, with all the rows collected, and never when there are none
BatchWrite ==
    /\ sinkLog \in {<<>>, <<"ensure">>, <<"ensure", "append">>}
    /\ Len(sinkLog) = 2 =>
          /\ pc = "done"
          /\ fi > Len(files)
          /\ rows_to_write # <<>>
          /\ appended = rows_to_write
          /\ outFile.wb[master_sheet] =
                ensure_workbook(outFile0, template, master_sheet, MainColumns)[master_sheet]
                   \o rows_to_write

\* C10 as stated: rows are appended at most once, after every file, with
\* the full collection; when no row was produced append_rows is not called
\* and the run writes nothing to the output.
C10_NothingWritten ==
    /\ BatchWrite
    /\ (pc = "done" /\ rows_to_write = <<>>) =>
          /\ "append" \notin Range(sinkLog)
          /\ outFile = outFile0

\* C10 amended: rows are appended at most once, after every file, with the
\* full collection; when no row was produced append_rows is not called and
\* the output holds what ensure_workbook saved before the first file.
C10_BatchWriteOnly ==
    /\ BatchWrite
    /\ (pc = "done" /\ rows_to_write = <<>>) =>
          /\ sinkLog = <<"ensure">>
          /\ outFile = OnDisk(ensure_workbook(outFile0, template, master_sheet, MainColumns))

\* a run has ended after appending the two rows it collected
C10_Witness ==
    /\ pc = "done"
    /\ Len(rows_to_write) = 2
    /\ sinkLog = <<"ensure", "append">>
    /\ appended = rows_to_write

\* a run over a folder with candidate files has ended without a row
C10_NoRowWitness ==
    /\ pc = "done"
    /\ rows_to_write = <<>>
    /\ \E p \in folder : IsCandidate(p)
    /\ outFile # outFile0

====
